---- MODULE Spec2Model ----
(***************************************************************************)
(* cw-acl: a CosmWasm access-control list.  The store of the contract      *)
(* (state.rs), the execute handlers behind the operator gate (contract.rs, *)
(* client.rs, execute/*.rs) and the IsAllowed query (query/is_allowed.rs). *)
(*                                                                         *)
(* Strings that the code takes apart (paths, role names) are sequences of  *)
(* one-character strings; addresses and principals are only compared and   *)
(* are plain strings.  Option<T> is a set: {} is None and {v} is Some(v).  *)
(* A cw-storage-plus Map is a function whose DOMAIN is the set of keys.    *)
(***************************************************************************)
EXTENDS Integers, Sequences, FiniteSets, TLC

VARIABLES
    OP,                             \* Item<Operator>
    CREATED_BY,                     \* Item<Addr>
    CREATED_AT,                     \* Item<Timestamp>
    NAME,                           \* Item<String>, Option: may be unset
    DESCRIPTION,                    \* Item<String>, Option: may be unset
    PATH_REF_COUNTS,                \* Map<&Path, u32>
    PRINCIPAL_PATH_AUTHORIZATIONS,  \* Map<(&Principal, &Path), AuthRecord>
    PRINCIPAL_ROLE_AUTHORIZATIONS,  \* Map<(&Principal, &Role), AuthRecord>
    ROLE_INFOS,                     \* Map<&Role, AuthRoleInfo>
    ROLE_PATHS,                     \* Map<(&Role, &Path), u8>: the set of its keys
    PATH_ROLES,                     \* Map<(&Path, &Role), u8>: the set of its keys
    now,                            \* env.block.time, in seconds
    last                            \* how the last call of an entry point ended

storage == <<OP, CREATED_BY, CREATED_AT, NAME, DESCRIPTION, PATH_REF_COUNTS,
             PRINCIPAL_PATH_AUTHORIZATIONS, PRINCIPAL_ROLE_AUTHORIZATIONS,
             ROLE_INFOS, ROLE_PATHS, PATH_ROLES>>

vars == <<storage, now, last>>

---------------------------------------------------------------------------
(* Bounds of the model. *)

\* the block time runs from 0 to MaxTime
MaxTime == 1
\* a ttl is absent or one of 0..MaxTtl seconds
MaxTtl == 1
\* Spec stores at most MaxEntries direct grants, memberships and role paths
\* together, SpecAuth at most MaxAuthEntries
MaxEntries == 2
MaxAuthEntries == 4
\* and SpecRoles at most MaxRoleEntries
MaxRoleEntries == 3
\* n_principals is kept within MaxCount of 0 or of u32::MAX
MaxCount == 1
\* IsAllowed is asked about at most MaxPaths paths at once
MaxPaths == 2
MaxListed == 501
MaxRaw == 3
MaxMemberEntries == 4
MaxPairEntries == 3

---------------------------------------------------------------------------
(* The inputs the environment draws from. *)

Addrs == {"a", "b"}
Principals == {"p", "q"}
Roles == {<<"r">>, <<"/", "a">>}

\* raw paths given to the handlers that write
WritePaths ==
    { <<"/", "a">>,
      <<"/", "a", "/", "b">>,
      <<"a", " ", "b">>,             \* canonical form /a-b
      <<"/">> }

\* raw paths asked about
QueryPaths ==
    WritePaths \cup
    { <<"a", "/", "b", "/">>,        \* canonical form /a/b
      <<"/", "a", "-", "b">>,
      <<"/", "a", "/", "b", "/", "c">>,
      <<>> }                         \* canonical form /

TTLs == {{}} \cup {{n} : n \in 0..MaxTtl}
Times == 0..(MaxTime + MaxTtl + 1)

Operators ==
    {[kind |-> "Address", addr |-> a] : a \in Addrs} \cup {[kind |-> "Acl", addr |-> "c"]}

---------------------------------------------------------------------------
(* Results. *)

Ok == [ok |-> TRUE]
OkValue(v) == [ok |-> TRUE, value |-> v]
Err(kind) == [ok |-> FALSE, kind |-> kind]
ErrReason(kind, reason) == [ok |-> FALSE, kind |-> kind, reason |-> reason]

\* format!("{} access to {} has expired", principal, path) and
\* format!("{} not authorized to {}", principal, path): a message is its
\* template and the two values formatted into it
Message(text, principal, path) == [text |-> text, principal |-> principal, path |-> path]

---------------------------------------------------------------------------
(* Map operations of cw-storage-plus. *)

Save(m, k, v) == [x \in (DOMAIN m) \cup {k} |-> IF x = k THEN v ELSE m[x]]
Remove(m, k) == [x \in (DOMAIN m) \ {k} |-> m[x]]
may_load(m, k) == IF k \in DOMAIN m THEN {m[k]} ELSE {}
EmptyMap == [x \in {} |-> 0]

---------------------------------------------------------------------------
(* math.rs *)

\* A u32 is held as its pattern of 32 bits, read as the integers of TLC read
\* it: the values up to 2^31 - 1 are themselves, a value above is held as
\* the value - 2^32, so that u32::MAX is the pattern of all ones.
U32_MAX == 0 - 1

\* a < b as u32
unsigned_less(a, b) == IF (a >= 0) = (b >= 0) THEN a < b ELSE a >= 0

\* a + b modulo 2^32, for a + b <= u32::MAX
wrapping_add(a, b) ==
    IF a >= 0 /\ b >= 0 /\ a > 2147483647 - b
    THEN ((a - 2147483647) - 1) + ((b - 2147483647) - 1)
    ELSE a + b

\* a - b modulo 2^32, for a >= b as u32
wrapping_sub(a, b) ==
    IF a < 0 /\ b > 0 /\ (a + 2147483647) + 1 < b
    THEN ((a + 2147483647) + 1) + ((2147483647 - b) + 1)
    ELSE a - b

\* u32::checked_sub: None below 0
sub_u32(a, b) == IF unsigned_less(a, b) THEN {} ELSE {wrapping_sub(a, b)}

\* (mutant) u32::saturating_add: u32::MAX where the sum is above it
add_u32_saturating(a, b) ==
    IF unsigned_less(U32_MAX - b, a) THEN {U32_MAX} ELSE {wrapping_add(a, b)}

\* u32::checked_add: None above u32::MAX
add_u32(a, b) == IF unsigned_less(U32_MAX - b, a) THEN {} ELSE {wrapping_add(a, b)}

---------------------------------------------------------------------------
(* utils.rs: strings *)

RECURSIVE trim_start(_)
trim_start(s) ==
    IF s # <<>> /\ Head(s) = "/" THEN trim_start(Tail(s)) ELSE s

RECURSIVE trim_end(_)
trim_end(s) ==
    IF s # <<>> /\ s[Len(s)] = "/" THEN trim_end(SubSeq(s, 1, Len(s) - 1)) ELSE s

\* str::trim_matches('/')
trim_matches(s) == trim_end(trim_start(s))

\* str::replace(" ", "-")
replace(s) == [i \in 1..Len(s) |-> IF s[i] = " " THEN "-" ELSE s[i]]

\* char::is_ascii_graphic: U+0021 '!' ..= U+007E '~'; of the characters used
\* here the space and the tab are outside that range
is_ascii_graphic(c) == c \notin {" ", "\t"}

remove_non_printables(input) == SelectSeq(input, is_ascii_graphic)

to_canonical_path(raw_path) ==
    remove_non_printables(replace(<<"/">> \o trim_matches(raw_path)))

\* str::split("/"): the pieces between the slashes, empty pieces kept
RECURSIVE split(_)
split(s) ==
    IF \A i \in 1..Len(s) : s[i] # "/"
    THEN <<s>>
    ELSE LET i == CHOOSE j \in 1..Len(s) :
                      s[j] = "/" /\ \A k \in 1..(j - 1) : s[k] # "/"
         IN  <<SubSeq(s, 1, i - 1)>> \o split(SubSeq(s, i + 1, Len(s)))

\* [&str]::join("/")
RECURSIVE join(_)
join(crumbs) ==
    IF crumbs = <<>> THEN <<>>
    ELSE IF Len(crumbs) = 1 THEN crumbs[1]
    ELSE crumbs[1] \o <<"/">> \o join(Tail(crumbs))

to_canonical_path_from_crumbs(crumbs) == <<"/">> \o join(crumbs)

---------------------------------------------------------------------------
(* utils.rs: the reference counter *)

\* (mutant) a count of 0 is released as a count of 1 is: the entry is removed
decrement_removes_at_zero(prc, canonical_path) ==
    [res |-> Ok,
     prc |-> IF canonical_path \in DOMAIN prc /\ prc[canonical_path] <= 1
             THEN Remove(prc, canonical_path)
             ELSE [x \in DOMAIN prc |->
                    IF x = canonical_path THEN prc[x] - 1 ELSE prc[x]]]

\* The outcome of decrement_or_remove_path_ref_count on the map prc: the
\* result and the map as the call leaves it.
decrement_or_remove_path_ref_count(prc, canonical_path) ==
    LET loaded == may_load(prc, canonical_path)
    IN  IF loaded # {}
        THEN LET n == CHOOSE v \in loaded : TRUE
             IN  IF n = 1
                 THEN [res |-> Ok, prc |-> Remove(prc, canonical_path)]
                 ELSE IF sub_u32(n, 1) = {}
                      THEN [res |-> Err("Std(Overflow)"), prc |-> prc]
                      ELSE [res |-> Ok,
                            prc |-> Save(prc, canonical_path,
                                         CHOOSE v \in sub_u32(n, 1) : TRUE)]
        ELSE [res |-> Ok, prc |-> prc]

---------------------------------------------------------------------------
(* query/is_allowed.rs *)

\* what the resolver reads of the storage
Store ==
    [ppa |-> PRINCIPAL_PATH_AUTHORIZATIONS,
     pra |-> PRINCIPAL_ROLE_AUTHORIZATIONS,
     pr  |-> PATH_ROLES,
     prc |-> PATH_REF_COUNTS,
     rp  |-> ROLE_PATHS,
     ri  |-> ROLE_INFOS]

\* (mutant) the record counts from its expiry on, not until it
expired_until(record, time) == \E expiry \in record.expires_at : time < expiry

\* expires_at is set and time >= expiry
expired(record, time) == \E expiry \in record.expires_at : time >= expiry

\* Err(String) of try_authorize_path
Denied(msg) == [ok |-> FALSE, msg |-> msg]

\* path.trim_matches('/').split("/")
crumbs_of(path) == split(trim_matches(path))

\* (mutant) the roles of a level are asked before its direct grant
RECURSIVE authorize_crumbs_roles_first(_, _, _, _)
authorize_crumbs_roles_first(store, time, principal, crumbs) ==
    IF crumbs = <<>> THEN {}
    ELSE
        LET canonical_path == to_canonical_path_from_crumbs(crumbs)
            maybe_assignment == may_load(store.ppa, <<principal, canonical_path>>)
            roles == {k[2] : k \in {k \in store.pr : k[1] = canonical_path}}
        IN  IF \E role \in roles :
                   \E record \in may_load(store.pra, <<principal, role>>) :
                       ~expired(record, time)
            THEN {Ok}
            ELSE IF maybe_assignment # {}
                 THEN LET assignment == CHOOSE a \in maybe_assignment : TRUE
                      IN  IF expired(assignment, time)
                          THEN {Denied(Message("access has expired", principal,
                                               canonical_path))}
                          ELSE {Ok}
                 ELSE authorize_crumbs_roles_first(store, time, principal,
                                                   SubSeq(crumbs, 1, Len(crumbs) - 1))

\* (mutant) only the full path is looked up, no prefix of it
authorize_crumbs_no_walk(store, time, principal, crumbs) ==
    IF crumbs = <<>> THEN {}
    ELSE
        LET canonical_path == to_canonical_path_from_crumbs(crumbs)
            maybe_assignment == may_load(store.ppa, <<principal, canonical_path>>)
            roles == {k[2] : k \in {k \in store.pr : k[1] = canonical_path}}
        IN  IF maybe_assignment # {}
            THEN LET assignment == CHOOSE a \in maybe_assignment : TRUE
                 IN  IF expired(assignment, time)
                     THEN {Denied(Message("access has expired", principal,
                                          canonical_path))}
                     ELSE {Ok}
            ELSE IF \E role \in roles :
                        \E record \in may_load(store.pra, <<principal, role>>) :
                            ~expired(record, time)
                 THEN {Ok}
                 ELSE {}

\* (mutant) an expired direct grant is passed over like an absent one
RECURSIVE authorize_crumbs_skip_expired(_, _, _, _)
authorize_crumbs_skip_expired(store, time, principal, crumbs) ==
    IF crumbs = <<>> THEN {}
    ELSE
        LET canonical_path == to_canonical_path_from_crumbs(crumbs)
            maybe_assignment == may_load(store.ppa, <<principal, canonical_path>>)
            roles == {k[2] : k \in {k \in store.pr : k[1] = canonical_path}}
        IN  IF \E assignment \in maybe_assignment : ~expired(assignment, time)
            THEN {Ok}
            ELSE IF \E role \in roles :
                        \E record \in may_load(store.pra, <<principal, role>>) :
                            ~expired(record, time)
                 THEN {Ok}
                 ELSE authorize_crumbs_skip_expired(store, time, principal,
                                                    SubSeq(crumbs, 1, Len(crumbs) - 1))

\* (mutant) an expired membership in a role of the level ends the search, as
\* an expired direct grant does
RECURSIVE authorize_crumbs_expired_role_ends(_, _, _, _)
authorize_crumbs_expired_role_ends(store, time, principal, crumbs) ==
    IF crumbs = <<>> THEN {}
    ELSE
        LET canonical_path == to_canonical_path_from_crumbs(crumbs)
            maybe_assignment == may_load(store.ppa, <<principal, canonical_path>>)
            roles == {k[2] : k \in {k \in store.pr : k[1] = canonical_path}}
        IN  IF maybe_assignment # {}
            THEN LET assignment == CHOOSE a \in maybe_assignment : TRUE
                 IN  IF expired(assignment, time)
                     THEN {Denied(Message("access has expired", principal,
                                          canonical_path))}
                     ELSE {Ok}
            ELSE IF \E role \in roles :
                        \E record \in may_load(store.pra, <<principal, role>>) :
                            expired(record, time)
                 THEN {Denied(Message("access has expired", principal,
                                      canonical_path))}
                 ELSE IF \E role \in roles :
                            may_load(store.pra, <<principal, role>>) # {}
                      THEN {Ok}
                      ELSE authorize_crumbs_expired_role_ends(
                                store, time, principal,
                                SubSeq(crumbs, 1, Len(crumbs) - 1))

\* The while loop of try_authorize_path from the crumbs left: the result it
\* returns, or {} when the crumbs run out.  The roles of a level are read in
\* ascending order and the first valid membership returns Ok(()): the
\* result is Ok exactly when some role of the level has one.
RECURSIVE authorize_crumbs(_, _, _, _)
authorize_crumbs(store, time, principal, crumbs) ==
    IF crumbs = <<>> THEN {}
    ELSE
        LET canonical_path == to_canonical_path_from_crumbs(crumbs)
            maybe_assignment == may_load(store.ppa, <<principal, canonical_path>>)
            roles == {k[2] : k \in {k \in store.pr : k[1] = canonical_path}}
        IN  IF maybe_assignment # {}
            THEN LET assignment == CHOOSE a \in maybe_assignment : TRUE
                 IN  IF expired(assignment, time)
                     THEN {Denied(Message("access has expired", principal,
                                          canonical_path))}
                     ELSE {Ok}
            ELSE IF \E role \in roles :
                        \E record \in may_load(store.pra, <<principal, role>>) :
                            ~expired(record, time)
                 THEN {Ok}
                 ELSE authorize_crumbs(store, time, principal,
                                       SubSeq(crumbs, 1, Len(crumbs) - 1))

try_authorize_path(store, time, principal, path) ==
    LET crumbs == crumbs_of(path)
        found == authorize_crumbs(store, time, principal, crumbs)
    IN  IF found # {}
        THEN CHOOSE r \in found : TRUE
        ELSE Denied(Message("not authorized", principal, to_canonical_path(path)))

TestRequirements == {"Any", "All"}

\* Option::unwrap_or
unwrap_or(opt, default) == IF opt = {} THEN default ELSE CHOOSE v \in opt : TRUE

\* The for loop of query_is_allowed from path number i on, with the error
\* messages pushed so far, and the code after the loop.
RECURSIVE is_allowed_from(_, _, _, _, _, _, _, _)
is_allowed_from(store, time, principal, paths, require, raise, i, error_msgs) ==
    IF i > Len(paths)
    THEN IF Len(error_msgs) = Len(paths)
         THEN IF raise
              THEN ErrReason("NotAuthorized", error_msgs)   \* error_msgs.join(", ")
              ELSE OkValue(FALSE)
         ELSE OkValue(TRUE)
    ELSE LET r == try_authorize_path(store, time, principal, paths[i])
         IN  IF ~r.ok
             THEN IF require = "All"
                  THEN IF raise
                       THEN ErrReason("NotAuthorized", <<r.msg>>)
                       ELSE OkValue(FALSE)
                  ELSE is_allowed_from(store, time, principal, paths, require, raise,
                                       i + 1, Append(error_msgs, r.msg))
             ELSE is_allowed_from(store, time, principal, paths, require, raise,
                                  i + 1, error_msgs)

\* (mutant) the requirement of the message is not read: every path must pass
query_is_allowed_require_all(store, time, msg) ==
    is_allowed_from(store, time, msg.principal, msg.paths, "All",
                    unwrap_or(msg.raise, FALSE), 1, <<>>)

\* msg is IsAllowedParams: principal, paths, require: Option, raise: Option
query_is_allowed(store, time, msg) ==
    LET require == unwrap_or(msg.require, "All")
        raise == unwrap_or(msg.raise, FALSE)
    IN  is_allowed_from(store, time, msg.principal, msg.paths, require, raise, 1, <<>>)

IsAllowedParams(principal, paths, require, raise) ==
    [principal |-> principal, paths |-> paths, require |-> require, raise |-> raise]

---------------------------------------------------------------------------
(* client.rs *)

\* (mutant) the sender is compared with nothing
ensure_is_allowed_anyone(sender, operator, acl_answer) ==
    IF operator.kind = "Address" THEN Ok ELSE acl_answer

\* acl_answer is what querier.query_wasm_smart returns from the other ACL
ensure_is_allowed(sender, operator, acl_answer) ==
    IF operator.kind = "Address"
    THEN IF sender = operator.addr THEN Ok ELSE Err("Std(GenericErr)")
    ELSE acl_answer

---------------------------------------------------------------------------
(* execute/*.rs: the handlers.  Each one sets last to the result it returns. *)

meta == <<CREATED_BY, CREATED_AT, NAME, DESCRIPTION>>

\* what last keeps of a result: Ok and its value, or the kind of the error
outcome(res) == IF res.ok THEN res ELSE Err(res.kind)

returns(res) == last' = outcome(res)

\* AuthRecord { expires_at: ttl.and_then(|n| Some(env.block.time.plus_seconds(n))) }
AuthRecord(ttl) == [expires_at |-> {now + n : n \in ttl}]

\* (mutant) the new operator starts with no direct grants
exec_set_operator_clears(new_operator) ==
    /\ OP' = new_operator
    /\ PRINCIPAL_PATH_AUTHORIZATIONS' = EmptyMap
    /\ returns(Ok)
    /\ UNCHANGED <<meta, PATH_REF_COUNTS, PRINCIPAL_ROLE_AUTHORIZATIONS, ROLE_INFOS,
                   ROLE_PATHS, PATH_ROLES>>

exec_set_operator(new_operator) ==
    /\ OP' = new_operator
    /\ returns(Ok)
    /\ UNCHANGED <<meta, PATH_REF_COUNTS, PRINCIPAL_PATH_AUTHORIZATIONS,
                   PRINCIPAL_ROLE_AUTHORIZATIONS, ROLE_INFOS, ROLE_PATHS, PATH_ROLES>>

\* (mutant) a grant that is already stored keeps its record
exec_allow_keeps_first(msg) ==
    LET auth == AuthRecord(msg.ttl)
        canonical_path == to_canonical_path(msg.path)
        key == <<msg.principal, canonical_path>>
    IN  /\ PATH_REF_COUNTS' = Save(PATH_REF_COUNTS, canonical_path, 0)
        /\ PRINCIPAL_PATH_AUTHORIZATIONS' =
               IF key \in DOMAIN PRINCIPAL_PATH_AUTHORIZATIONS
               THEN PRINCIPAL_PATH_AUTHORIZATIONS
               ELSE Save(PRINCIPAL_PATH_AUTHORIZATIONS, key, auth)
        /\ returns(Ok)
        /\ UNCHANGED <<OP, meta, PRINCIPAL_ROLE_AUTHORIZATIONS, ROLE_INFOS,
                       ROLE_PATHS, PATH_ROLES>>

\* (mutant) the record is saved under the path for every principal
exec_allow_everyone(msg) ==
    LET auth == AuthRecord(msg.ttl)
        canonical_path == to_canonical_path(msg.path)
        keys == {<<p, canonical_path>> : p \in Principals}
    IN  /\ PATH_REF_COUNTS' = Save(PATH_REF_COUNTS, canonical_path, 0)
        /\ PRINCIPAL_PATH_AUTHORIZATIONS' =
               [k \in DOMAIN PRINCIPAL_PATH_AUTHORIZATIONS \cup keys |->
                    IF k \in keys THEN auth ELSE PRINCIPAL_PATH_AUTHORIZATIONS[k]]
        /\ returns(Ok)
        /\ UNCHANGED <<OP, meta, PRINCIPAL_ROLE_AUTHORIZATIONS, ROLE_INFOS,
                       ROLE_PATHS, PATH_ROLES>>

exec_allow(msg) ==
    LET auth == AuthRecord(msg.ttl)
        canonical_path == to_canonical_path(msg.path)
    IN  /\ PATH_REF_COUNTS' = Save(PATH_REF_COUNTS, canonical_path, 0)
        /\ PRINCIPAL_PATH_AUTHORIZATIONS' =
               Save(PRINCIPAL_PATH_AUTHORIZATIONS, <<msg.principal, canonical_path>>, auth)
        /\ returns(Ok)
        /\ UNCHANGED <<OP, meta, PRINCIPAL_ROLE_AUTHORIZATIONS, ROLE_INFOS,
                       ROLE_PATHS, PATH_ROLES>>

exec_deny(msg) ==
    LET canonical_path == to_canonical_path(msg.path)
        released == decrement_or_remove_path_ref_count(PATH_REF_COUNTS, canonical_path)
    IN  IF ~released.res.ok
        THEN /\ returns(released.res)
             /\ UNCHANGED storage
        ELSE /\ PATH_REF_COUNTS' = released.prc
             /\ PRINCIPAL_PATH_AUTHORIZATIONS' =
                    Remove(PRINCIPAL_PATH_AUTHORIZATIONS, <<msg.principal, canonical_path>>)
             /\ returns(Ok)
             /\ UNCHANGED <<OP, meta, PRINCIPAL_ROLE_AUTHORIZATIONS, ROLE_INFOS,
                            ROLE_PATHS, PATH_ROLES>>

\* (mutant) the path is indexed under the role and not the role under the path
exec_allow_role_one_index(msg) ==
    LET canonical_path == to_canonical_path(msg.path)
    IN  /\ PATH_REF_COUNTS' = Save(PATH_REF_COUNTS, canonical_path, 0)
        /\ ROLE_PATHS' = ROLE_PATHS \cup {<<msg.role, canonical_path>>}
        /\ returns(Ok)
        /\ UNCHANGED <<OP, meta, PRINCIPAL_PATH_AUTHORIZATIONS,
                       PRINCIPAL_ROLE_AUTHORIZATIONS, ROLE_INFOS, PATH_ROLES>>

exec_allow_role(msg) ==
    LET canonical_path == to_canonical_path(msg.path)
    IN  /\ PATH_REF_COUNTS' = Save(PATH_REF_COUNTS, canonical_path, 0)
        /\ ROLE_PATHS' = ROLE_PATHS \cup {<<msg.role, canonical_path>>}
        /\ PATH_ROLES' = PATH_ROLES \cup {<<canonical_path, msg.role>>}
        /\ returns(Ok)
        /\ UNCHANGED <<OP, meta, PRINCIPAL_PATH_AUTHORIZATIONS,
                       PRINCIPAL_ROLE_AUTHORIZATIONS, ROLE_INFOS>>

exec_deny_role(msg) ==
    LET canonical_path == to_canonical_path(msg.path)
        released == decrement_or_remove_path_ref_count(PATH_REF_COUNTS, canonical_path)
    IN  IF ~released.res.ok
        THEN /\ returns(released.res)
             /\ UNCHANGED storage
        ELSE /\ PATH_REF_COUNTS' = released.prc
             /\ ROLE_PATHS' = ROLE_PATHS \ {<<msg.role, canonical_path>>}
             /\ PATH_ROLES' = PATH_ROLES \ {<<canonical_path, msg.role>>}
             /\ returns(Ok)
             /\ UNCHANGED <<OP, meta, PRINCIPAL_PATH_AUTHORIZATIONS,
                            PRINCIPAL_ROLE_AUTHORIZATIONS, ROLE_INFOS>>

\* (mutant) a RoleInfo that is already stored is written over
exec_create_role_overwrites(sender, msg) ==
    LET role == msg.name
        paths == unwrap_or(msg.paths, <<>>)
        canonical_paths == {to_canonical_path(paths[i]) : i \in 1..Len(paths)}
    IN  /\ ROLE_INFOS' = Save(ROLE_INFOS, role,
                              [created_at |-> now, created_by |-> sender,
                               n_principals |-> 0, description |-> msg.description])
        /\ PATH_REF_COUNTS' =
               [x \in (DOMAIN PATH_REF_COUNTS) \cup canonical_paths |->
                   IF x \in canonical_paths THEN 0 ELSE PATH_REF_COUNTS[x]]
        /\ ROLE_PATHS' = ROLE_PATHS \cup {<<role, c>> : c \in canonical_paths}
        /\ PATH_ROLES' = PATH_ROLES \cup {<<c, role>> : c \in canonical_paths}
        /\ returns(Ok)
        /\ UNCHANGED <<OP, meta, PRINCIPAL_PATH_AUTHORIZATIONS,
                       PRINCIPAL_ROLE_AUTHORIZATIONS>>

\* msg.paths is Option<Vec<String>>; the loop saves the same three entries
\* for each path, so its outcome is that of the set of canonical paths
exec_create_role(sender, msg) ==
    LET role == msg.name
        paths == unwrap_or(msg.paths, <<>>)
        canonical_paths == {to_canonical_path(paths[i]) : i \in 1..Len(paths)}
    IN  IF role \in DOMAIN ROLE_INFOS
        THEN /\ returns(Err("NotAuthorized"))
             /\ UNCHANGED storage
        ELSE /\ ROLE_INFOS' = Save(ROLE_INFOS, role,
                                   [created_at |-> now, created_by |-> sender,
                                    n_principals |-> 0, description |-> msg.description])
             /\ PATH_REF_COUNTS' =
                    [x \in (DOMAIN PATH_REF_COUNTS) \cup canonical_paths |->
                        IF x \in canonical_paths THEN 0 ELSE PATH_REF_COUNTS[x]]
             /\ ROLE_PATHS' = ROLE_PATHS \cup {<<role, c>> : c \in canonical_paths}
             /\ PATH_ROLES' = PATH_ROLES \cup {<<c, role>> : c \in canonical_paths}
             /\ returns(Ok)
             /\ UNCHANGED <<OP, meta, PRINCIPAL_PATH_AUTHORIZATIONS,
                            PRINCIPAL_ROLE_AUTHORIZATIONS>>

\* (mutant) a principal that holds the role already is not counted again
grant_role_counts_once(infos, pra, msg) ==
    LET maybe_info == may_load(infos, msg.role)
    IN  IF maybe_info = {}
        THEN [res |-> Err("NotAuthorized"), infos |-> infos, pra |-> pra]
        ELSE LET info == CHOOSE i \in maybe_info : TRUE
                 held == <<msg.principal, msg.role>> \in DOMAIN pra
             IN  [res |-> Ok,
                  infos |-> IF held THEN infos
                            ELSE Save(infos, msg.role,
                                      [info EXCEPT !.n_principals = @ + 1]),
                  pra |-> Save(pra, <<msg.principal, msg.role>>, AuthRecord(msg.ttl))]

\* (mutant) the role is not looked up before the membership is written
grant_role_unchecked(infos, pra, msg) ==
    [res |-> Ok, infos |-> infos,
     pra |-> Save(pra, <<msg.principal, msg.role>>, AuthRecord(msg.ttl))]

\* What exec_grant_role returns and leaves in ROLE_INFOS and
\* PRINCIPAL_ROLE_AUTHORIZATIONS, from their values infos and pra.
grant_role(infos, pra, msg) ==
    LET auth == AuthRecord(msg.ttl)
        maybe_info == may_load(infos, msg.role)
    IN  IF maybe_info = {}
        THEN [res |-> Err("NotAuthorized"), infos |-> infos, pra |-> pra]
        ELSE LET info == CHOOSE i \in maybe_info : TRUE
                 n == add_u32(info.n_principals, 1)
             IN  IF n = {}
                 THEN [res |-> Err("Std(Overflow)"), infos |-> infos, pra |-> pra]
                 ELSE [res |-> Ok,
                       infos |-> Save(infos, msg.role,
                                      [info EXCEPT !.n_principals = CHOOSE v \in n : TRUE]),
                       pra |-> Save(pra, <<msg.principal, msg.role>>, auth)]

exec_grant_role(msg) ==
    LET out == grant_role(ROLE_INFOS, PRINCIPAL_ROLE_AUTHORIZATIONS, msg)
    IN  /\ ROLE_INFOS' = out.infos
        /\ PRINCIPAL_ROLE_AUTHORIZATIONS' = out.pra
        /\ returns(out.res)
        /\ UNCHANGED <<OP, meta, PATH_REF_COUNTS, PRINCIPAL_PATH_AUTHORIZATIONS,
                       ROLE_PATHS, PATH_ROLES>>

\* What exec_revoke_role returns and leaves in ROLE_INFOS and
\* PRINCIPAL_ROLE_AUTHORIZATIONS, from their values infos and pra.
revoke_role(infos, pra, msg) ==
    LET maybe_info == may_load(infos, msg.role)
    IN  IF maybe_info = {}
        THEN [res |-> Err("NotAuthorized"), infos |-> infos, pra |-> pra]
        ELSE LET info == CHOOSE i \in maybe_info : TRUE
                 n == sub_u32(info.n_principals, 1)
             IN  IF n = {}
                 THEN [res |-> Err("Std(Overflow)"), infos |-> infos, pra |-> pra]
                 ELSE [res |-> Ok,
                       infos |-> Save(infos, msg.role,
                                      [info EXCEPT !.n_principals = CHOOSE v \in n : TRUE]),
                       pra |-> Remove(pra, <<msg.principal, msg.role>>)]

exec_revoke_role(msg) ==
    LET out == revoke_role(ROLE_INFOS, PRINCIPAL_ROLE_AUTHORIZATIONS, msg)
    IN  /\ ROLE_INFOS' = out.infos
        /\ PRINCIPAL_ROLE_AUTHORIZATIONS' = out.pra
        /\ returns(out.res)
        /\ UNCHANGED <<OP, meta, PATH_REF_COUNTS, PRINCIPAL_PATH_AUTHORIZATIONS,
                       ROLE_PATHS, PATH_ROLES>>

(* execute/remove_role.rs: public, and reached by no ExecuteMsg *)

\* the byte of a character, for the order of the keys of a Map
Ord(c) ==
    CASE c = "\t" -> 9  [] c = " " -> 32 [] c = "-" -> 45 [] c = "/" -> 47
      [] c = "a" -> 97  [] c = "b" -> 98 [] c = "c" -> 99 [] c = "r" -> 114

\* s is before t in the order of their bytes
RECURSIVE bytes_less(_, _)
bytes_less(s, t) ==
    IF t = <<>> THEN FALSE
    ELSE IF s = <<>> THEN TRUE
    ELSE IF Ord(Head(s)) # Ord(Head(t)) THEN Ord(Head(s)) < Ord(Head(t))
    ELSE bytes_less(Tail(s), Tail(t))

\* the characters, in the order of their bytes
Chars == <<"\t", " ", "-", "/", "a", "b", "c", "r">>

\* Order::Ascending over a set of keys: the empty key, then for each first
\* character in turn the keys that begin with it, by what follows it
RECURSIVE Ascending(_)
RECURSIVE ascending_from(_, _)
ascending_from(keys, j) ==
    IF j > Len(Chars) THEN <<>>
    ELSE LET c == Chars[j]
             rest == Ascending({Tail(k) : k \in {x \in keys : x # <<>> /\ Head(x) = c}})
         IN  [i \in 1..Len(rest) |-> <<c>> \o rest[i]] \o ascending_from(keys, j + 1)
Ascending(keys) ==
    IF keys = {} THEN <<>>
    ELSE (IF <<>> \in keys THEN << <<>> >> ELSE <<>>) \o ascending_from(keys, 1)

\* The loop of exec_remove_role over paths_to_remove, from the maps st: it
\* stops at the first release that fails, with what it wrote before.
RECURSIVE remove_role_paths(_, _, _)
remove_role_paths(st, role, paths) ==
    IF paths = <<>> THEN st
    ELSE LET path == Head(paths)
             released == decrement_or_remove_path_ref_count(st.prc, path)
         IN  IF ~released.res.ok
             THEN [st EXCEPT !.res = released.res]
             ELSE remove_role_paths([res |-> Ok,
                                     prc |-> released.prc,
                                     rp |-> st.rp \ {<<role, path>>},
                                     pr |-> st.pr \ {<<path, role>>}],
                                    role, Tail(paths))

\* paths_to_remove is read with PATH_ROLES.prefix(&role): the second parts of
\* the keys of PATH_ROLES whose first part, a path, is the role's name
exec_remove_role(role) ==
    LET paths_to_remove == Ascending({k[2] : k \in {k \in PATH_ROLES : k[1] = role}})
        out == remove_role_paths([res |-> Ok, prc |-> PATH_REF_COUNTS,
                                  rp |-> ROLE_PATHS, pr |-> PATH_ROLES],
                                 role, paths_to_remove)
    IN  /\ ROLE_INFOS' = Remove(ROLE_INFOS, role)
        /\ PATH_REF_COUNTS' = out.prc
        /\ ROLE_PATHS' = out.rp
        /\ PATH_ROLES' = out.pr
        /\ returns(out.res)
        /\ UNCHANGED <<OP, meta, PRINCIPAL_PATH_AUTHORIZATIONS,
                       PRINCIPAL_ROLE_AUTHORIZATIONS>>

---------------------------------------------------------------------------
(* query/paths.rs *)

MAX_LIMIT == 500
DEFAULT_LIMIT == 100

\* Subject
Acl == [kind |-> "Acl"]
Role(name) == [kind |-> "Role", name |-> name]
Principal(name) == [kind |-> "Principal", name |-> name]

PathsQueryParams(subject, limit, cursor, start, stop) ==
    [subject |-> subject, limit |-> limit, cursor |-> cursor, start |-> start,
     stop |-> stop]

clamp(n, low, high) == IF n < low THEN low ELSE IF n > high THEN high ELSE n

\* Bound::Exclusive and Bound::Inclusive as the lower end of a range
above(bound, key) ==
    IF bound.kind = "Exclusive" THEN bytes_less(bound.path, key)
    ELSE ~bytes_less(key, bound.path)

\* (mutant) the cursor is the last path of every page that has one
next_cursor_of_any_page(path_infos, limit) ==
    IF Len(path_infos) > 0 THEN {path_infos[Len(path_infos)].path} ELSE {}

\* next_cursor: the last path of a page that holds limit entries
next_cursor(path_infos, limit) ==
    IF Len(path_infos) = limit
    THEN IF Len(path_infos) > 0 THEN {path_infos[Len(path_infos)].path} ELSE {}
    ELSE {}

\* The keys of the subject, those in the range from min_bound to max_bound,
\* ascending, the first limit of them.
query_paths(store, params) ==
    LET limit == clamp(unwrap_or(params.limit, DEFAULT_LIMIT), 0, MAX_LIMIT)
        min_bound ==
            IF params.cursor # {}
            THEN {[kind |-> "Exclusive", path |-> c] : c \in params.cursor}
            ELSE {[kind |-> "Inclusive", path |-> s] : s \in params.start}
        max_bound == {[kind |-> "Inclusive", path |-> s] : s \in params.stop}
        subject == params.subject
        keys ==
            CASE subject.kind = "Acl" -> DOMAIN store.prc
              [] subject.kind = "Role" ->
                    {k[2] : k \in {k \in store.rp : k[1] = subject.name}}
              [] subject.kind = "Principal" ->
                    {k[2] : k \in {k \in DOMAIN store.ppa : k[1] = subject.name}}
        ranged ==
            Ascending({k \in keys :
                        /\ \A b \in min_bound : above(b, k)
                        /\ \A b \in max_bound : ~bytes_less(b.path, k)})
        taken == SubSeq(ranged, 1, IF limit < Len(ranged) THEN limit ELSE Len(ranged))
        path_infos ==
            [i \in 1..Len(taken) |->
                [path |-> taken[i],
                 expires_at |->
                    IF subject.kind = "Principal"
                    THEN store.ppa[<<subject.name, taken[i]>>].expires_at
                    ELSE {}]]
    IN  OkValue([paths |-> path_infos, cursor |-> next_cursor(path_infos, limit)])

(* query/roles.rs *)

\* RoleResponse
RoleResponse(name, info, expires_at) ==
    [name |-> name, description |-> info.description,
     created_at |-> info.created_at, created_by |-> info.created_by,
     n_principals |-> info.n_principals, expires_at |-> expires_at]

\* The roles of a principal, ascending: ROLE_INFOS.load fails at the first
\* of them that has no RoleInfo.
query_roles(store, principal) ==
    IF principal # {}
    THEN LET p == CHOOSE x \in principal : TRUE
             names == Ascending({k[2] : k \in {k \in DOMAIN store.pra : k[1] = p}})
         IN  IF \E i \in 1..Len(names) : names[i] \notin DOMAIN store.ri
             THEN Err("Std(NotFound)")
             ELSE OkValue([i \in 1..Len(names) |->
                            RoleResponse(names[i], store.ri[names[i]],
                                         store.pra[<<p, names[i]>>].expires_at)])
    ELSE LET names == Ascending(DOMAIN store.ri)
         IN  OkValue([i \in 1..Len(names) |->
                        RoleResponse(names[i], store.ri[names[i]], {})])

---------------------------------------------------------------------------
(* contract.rs *)

\* ExecuteMsg and RoleExecuteMsg
SetOperatorMsg(operator) == [type |-> "set_operator", operator |-> operator]
AllowMsg(principal, path, ttl) ==
    [type |-> "allow", principal |-> principal, path |-> path, ttl |-> ttl]
DenyMsg(principal, path) == [type |-> "deny", principal |-> principal, path |-> path]
CreateRoleMsg(name, description, paths) ==
    [type |-> "create_role", name |-> name, description |-> description, paths |-> paths]
AllowRoleMsg(role, path) == [type |-> "allow_role", role |-> role, path |-> path]
DenyRoleMsg(role, path) == [type |-> "deny_role", role |-> role, path |-> path]
GrantRoleMsg(principal, role, ttl) ==
    [type |-> "grant_role", principal |-> principal, role |-> role, ttl |-> ttl]
RevokeRoleMsg(principal, role) ==
    [type |-> "revoke_role", principal |-> principal, role |-> role]

execute(sender, msg, acl_answer) ==
    LET gate == ensure_is_allowed(sender, OP, acl_answer)
    IN  /\ now' = now
        /\ IF ~gate.ok
           THEN /\ returns(gate)
                /\ UNCHANGED storage
           ELSE CASE msg.type = "set_operator" -> exec_set_operator(msg.operator)
                  [] msg.type = "allow"        -> exec_allow(msg)
                  [] msg.type = "deny"         -> exec_deny(msg)
                  [] msg.type = "create_role"  -> exec_create_role(sender, msg)
                  [] msg.type = "allow_role"   -> exec_allow_role(msg)
                  [] msg.type = "deny_role"    -> exec_deny_role(msg)
                  [] msg.type = "grant_role"   -> exec_grant_role(msg)
                  [] msg.type = "revoke_role"  -> exec_revoke_role(msg)

\* QueryMsg::IsAllowed
query(msg) ==
    /\ returns(query_is_allowed(Store, now, msg))
    /\ UNCHANGED <<storage, now>>

---------------------------------------------------------------------------
(* state.rs: init, called by instantiate *)

MAX_NAME_LEN == 100
MAX_DESC_LEN == 1000

\* InstantiateMsg: three Options
InstantiateMsg(operator, name, description) ==
    [operator |-> operator, name |-> name, description |-> description]

\* What init returns, and the items it has saved (each an Option) when it
\* returns, called on an empty storage by `sender` at block time `time`.
init_result(sender, time, msg) ==
    LET operator == IF msg.operator # {}
                    THEN CHOOSE op \in msg.operator : TRUE
                    ELSE [kind |-> "Address", addr |-> sender]
        unsaved == [OP |-> {}, CREATED_AT |-> {}, CREATED_BY |-> {},
                    NAME |-> {}, DESCRIPTION |-> {}]
    IN  IF \E name \in msg.name : Len(name) > MAX_NAME_LEN
        THEN [res |-> Err("ValidationError"), saved |-> unsaved]
        ELSE IF \E desc \in msg.description : Len(desc) > MAX_DESC_LEN
        THEN [res |-> Err("ValidationError"),
              saved |-> [unsaved EXCEPT !.NAME = msg.name]]
        ELSE [res |-> Ok,
              saved |-> [OP |-> {operator}, CREATED_AT |-> {time},
                         CREATED_BY |-> {sender}, NAME |-> msg.name,
                         DESCRIPTION |-> msg.description]]

\* The storage init leaves for a message with no operator, name or
\* description, sent by `sender` at block time `time`.
init(sender, time) ==
    LET saved == init_result(sender, time, InstantiateMsg({}, {}, {})).saved
    IN  /\ OP \in saved.OP
        /\ CREATED_AT \in saved.CREATED_AT
        /\ CREATED_BY \in saved.CREATED_BY
        /\ NAME = saved.NAME
        /\ DESCRIPTION = saved.DESCRIPTION
        /\ PATH_REF_COUNTS = EmptyMap
        /\ PRINCIPAL_PATH_AUTHORIZATIONS = EmptyMap
        /\ PRINCIPAL_ROLE_AUTHORIZATIONS = EmptyMap
        /\ ROLE_INFOS = EmptyMap
        /\ ROLE_PATHS = {}
        /\ PATH_ROLES = {}

---------------------------------------------------------------------------
(* The environment: who calls, with which messages.  An environment e is a *)
(* record of the sets the calls draw from and of the entries it lets the   *)
(* storage hold.                                                           *)

AclAnswers == {Ok, Err("Std(GenericErr)")}

\* the operator ACL answers only when it is asked
Answers == IF OP.kind = "Acl" THEN AclAnswers ELSE {Ok}

ListsOver(paths, n) == UNION {[1..k -> paths] : k \in 0..n}
PathLists == ListsOver(QueryPaths, MaxPaths)
InitialPaths(paths) == {{}} \cup {{l} : l \in ListsOver(paths, 1)}
Descriptions == {{}}
Requirements == {{}} \cup {{t} : t \in TestRequirements}
Raises == {{}, {TRUE}, {FALSE}}

Entries ==
    Cardinality(DOMAIN PRINCIPAL_PATH_AUTHORIZATIONS)
      + Cardinality(DOMAIN PRINCIPAL_ROLE_AUTHORIZATIONS)
      + Cardinality(ROLE_PATHS)

\* the part of the state space explored: the entries after the step
Bounded(e) ==
    /\ Entries' <= e.max
    /\ \A r \in DOMAIN ROLE_INFOS' :
            LET n == ROLE_INFOS'[r].n_principals
            IN  \/ ~unsigned_less(MaxCount, n)
                \/ ~unsigned_less(n, U32_MAX - MaxCount)

Tick ==
    /\ now < MaxTime
    /\ now' = now + 1
    /\ UNCHANGED <<storage, last>>

SetOperator(e) ==
    \E sender \in e.senders, a \in Answers, o \in Operators :
        execute(sender, SetOperatorMsg(o), a) /\ Bounded(e)

Allow(e) ==
    \E sender \in e.senders, a \in Answers, p \in e.principals, x \in e.paths,
       ttl \in TTLs :
        execute(sender, AllowMsg(p, x, ttl), a) /\ Bounded(e)

Deny(e) ==
    \E sender \in e.senders, a \in Answers, p \in e.principals, x \in e.paths :
        execute(sender, DenyMsg(p, x), a) /\ Bounded(e)

CreateRole(e) ==
    \E sender \in e.senders, a \in Answers, r \in e.roles, d \in Descriptions,
       ps \in InitialPaths(e.paths) :
        execute(sender, CreateRoleMsg(r, d, ps), a) /\ Bounded(e)

AllowRole(e) ==
    \E sender \in e.senders, a \in Answers, r \in e.roles, x \in e.paths :
        execute(sender, AllowRoleMsg(r, x), a) /\ Bounded(e)

DenyRole(e) ==
    \E sender \in e.senders, a \in Answers, r \in e.roles, x \in e.paths :
        execute(sender, DenyRoleMsg(r, x), a) /\ Bounded(e)

GrantRole(e) ==
    \E sender \in e.senders, a \in Answers, p \in e.principals, r \in e.roles,
       ttl \in TTLs :
        execute(sender, GrantRoleMsg(p, r, ttl), a) /\ Bounded(e)

RevokeRole(e) ==
    \E sender \in e.senders, a \in Answers, p \in e.principals, r \in e.roles :
        execute(sender, RevokeRoleMsg(p, r), a) /\ Bounded(e)

\* exec_remove_role called as it stands: contract.rs gives no message for it
RemoveRole(e) ==
    \E r \in e.roles :
        exec_remove_role(r) /\ now' = now /\ Bounded(e)

\* the paths /aaaaaa, /aaaaab, ... : n of them, each one given once
Letters == <<"a", "b", "c">>
ManyPaths(n) ==
    [k \in 1..n |-> <<"/">> \o [i \in 1..6 |-> Letters[((k \div (3 ^ (6 - i))) % 3) + 1]]]

LargeList == ManyPaths(MaxListed)

\* CreateRole with more paths than the greatest page of a Paths query, where
\* the part of the state space explored has room for them
CreateLargeRole(e) ==
    /\ Entries + MaxListed <= e.max
    /\ \E sender \in e.senders, a \in Answers, r \in e.roles, d \in Descriptions :
            execute(sender, CreateRoleMsg(r, d, {LargeList}), a) /\ Bounded(e)

IsAllowed(e) ==
    \E p \in e.principals, paths \in ListsOver(e.paths, MaxPaths),
       require \in Requirements, raise \in Raises :
        query(IsAllowedParams(p, paths, require, raise)) /\ Bounded(e)

---------------------------------------------------------------------------
(* The specifications. *)

Init ==
    /\ now = 0
    /\ init("a", 0)
    /\ last = Ok

\* The whole contract: every execute message, from the operator and from
\* another sender.
All ==
    [senders |-> Addrs, principals |-> {"p"}, roles |-> {<<"r">>},
     paths |-> {<<"/", "a">>, <<"a", " ", "b">>}, max |-> MaxEntries]

Next ==
    \/ Tick
    \/ SetOperator(All)
    \/ Allow(All)
    \/ Deny(All)
    \/ CreateRole(All)
    \/ AllowRole(All)
    \/ DenyRole(All)
    \/ GrantRole(All)
    \/ RevokeRole(All)
    \/ IsAllowed(All)

Spec == Init /\ [][Next]_vars

\* The grants the resolver reads, written by the operator for one principal.
Auth ==
    [senders |-> {"a"}, principals |-> {"p"}, roles |-> {<<"r">>},
     paths |-> WritePaths, max |-> MaxAuthEntries]

NextAuth ==
    \/ Tick
    \/ Allow(Auth)
    \/ CreateRole(Auth)
    \/ AllowRole(Auth)
    \/ GrantRole(Auth)

SpecAuth == Init /\ [][NextAuth]_vars

\* The roles: their creation, paths, members and removal, for two principals
\* and a role whose name is also a canonical path.
Admin ==
    [senders |-> {"a"}, principals |-> Principals, roles |-> Roles,
     paths |-> {<<"/", "a">>}, max |-> MaxRoleEntries]

NextRoles ==
    \/ CreateRole(Admin)
    \/ AllowRole(Admin)
    \/ DenyRole(Admin)
    \/ GrantRole(Admin)
    \/ RevokeRole(Admin)
    \/ RemoveRole(Admin)

SpecRoles == Init /\ [][NextRoles]_vars

\* The listings: the paths granted to one principal and to one role, a few
\* or more than a page can hold.
Listed ==
    [senders |-> {"a"}, principals |-> {"p"}, roles |-> {<<"r">>},
     paths |-> {<<"/", "a">>, <<"/", "a", "/", "b">>, <<"a", " ", "b">>},
     max |-> MaxListed]

NextListed ==
    \/ Allow(Listed)
    \/ Deny(Listed)
    \/ CreateRole(Listed)
    \/ CreateLargeRole(Listed)
    \/ AllowRole(Listed)

SpecListed == Init /\ [][NextListed]_vars

\* The memberships: one principal in two roles, indexed at a path and at
\* its prefix, as time passes.
Members ==
    [senders |-> {"a"}, principals |-> {"p"}, roles |-> Roles,
     paths |-> {<<"/", "a">>, <<"/", "a", "/", "b">>}, max |-> MaxMemberEntries]

NextMembers ==
    \/ Tick
    \/ CreateRole(Members)
    \/ AllowRole(Members)
    \/ GrantRole(Members)

SpecMembers == Init /\ [][NextMembers]_vars

\* The counter of a role at both ends of u32: the role r as CreateRole left
\* it, or as 2^32 - 2 calls of GrantRole for p have left it since.
InitCounters ==
    LET saved == init_result("a", 0, InstantiateMsg({}, {}, {})).saved
        r == <<"r">>
    IN  /\ now = 0
        /\ last = Ok
        /\ OP \in saved.OP
        /\ CREATED_AT \in saved.CREATED_AT
        /\ CREATED_BY \in saved.CREATED_BY
        /\ NAME = saved.NAME
        /\ DESCRIPTION = saved.DESCRIPTION
        /\ PATH_REF_COUNTS = EmptyMap
        /\ PRINCIPAL_PATH_AUTHORIZATIONS = EmptyMap
        /\ ROLE_PATHS = {}
        /\ PATH_ROLES = {}
        /\ \E n \in {0, U32_MAX - 1} :
                /\ ROLE_INFOS =
                        Save(EmptyMap, r,
                             [created_at |-> 0, created_by |-> "a",
                              n_principals |-> n, description |-> {}])
                /\ PRINCIPAL_ROLE_AUTHORIZATIONS =
                        IF n = 0 THEN EmptyMap
                        ELSE Save(EmptyMap, <<"p", r>>, [expires_at |-> {}])

Counters ==
    [senders |-> {"a"}, principals |-> Principals, roles |-> {<<"r">>},
     paths |-> {}, max |-> MaxRoleEntries]

NextCounters ==
    \/ Tick
    \/ GrantRole(Counters)
    \/ RevokeRole(Counters)

SpecCounters == InitCounters /\ [][NextCounters]_vars

\* Two principals: the grants and memberships of each, and a role with its
\* paths.
Pair ==
    [senders |-> {"a"}, principals |-> Principals, roles |-> {<<"r">>},
     paths |-> {<<"/", "a">>, <<"/", "a", "/", "b">>}, max |-> MaxPairEntries]

NextPair ==
    \/ Allow(Pair)
    \/ Deny(Pair)
    \/ CreateRole(Pair)
    \/ AllowRole(Pair)
    \/ GrantRole(Pair)
    \/ RevokeRole(Pair)

SpecPair == Init /\ [][NextPair]_vars

---------------------------------------------------------------------------
(* The claims about the resolver. *)

\* the canonical path of the level made of the first k crumbs
level_path(crumbs, k) == to_canonical_path_from_crumbs(SubSeq(crumbs, 1, k))

has_direct(p, path) == <<p, path>> \in DOMAIN PRINCIPAL_PATH_AUTHORIZATIONS
direct(p, path) == PRINCIPAL_PATH_AUTHORIZATIONS[<<p, path>>]

\* p holds a membership, not expired at time t, in a role indexed at path
valid_role(p, path, t) ==
    \E k \in PATH_ROLES :
        /\ k[1] = path
        /\ <<p, k[2]>> \in DOMAIN PRINCIPAL_ROLE_AUTHORIZATIONS
        /\ ~expired(PRINCIPAL_ROLE_AUTHORIZATIONS[<<p, k[2]>>], t)

\* the level decides: a direct grant, or a valid membership
decides(p, path, t) == has_direct(p, path) \/ valid_role(p, path, t)

is_allowed(p, paths, t) == query_is_allowed(Store, t, IsAllowedParams(p, paths, {}, {}))

is_proper_prefix(s, t) == Len(s) < Len(t) /\ SubSeq(t, 1, Len(s)) = s

\* C1: try_authorize_path decides at the longest prefix of the path's crumbs
\* at which the principal has a direct grant or a valid membership in a role
\* indexed there: Ok for a direct grant that has not expired, or, with no
\* direct grant there, for the membership; the expiry message for an expired
\* direct grant; and the not-authorized message when no level decides.
C1_MostSpecificLevelDecides ==
    \A p \in Principals, path \in QueryPaths, t \in Times :
        LET cr == crumbs_of(path)
            deciding == {k \in 1..Len(cr) : decides(p, level_path(cr, k), t)}
            r == try_authorize_path(Store, t, p, path)
        IN  IF deciding = {}
            THEN r = Denied(Message("not authorized", p, to_canonical_path(path)))
            ELSE LET k == CHOOSE k \in deciding : \A j \in deciding : j <= k
                     lp == level_path(cr, k)
                 IN  IF has_direct(p, lp) /\ expired(direct(p, lp), t)
                     THEN r = Denied(Message("access has expired", p, lp))
                     ELSE r = Ok

\* an expired direct grant at a level decides against a valid direct grant at
\* a shallower level, and a valid role at a level is not asked when a direct
\* grant is there
C1_Witness ==
    \E p \in Principals, path \in QueryPaths :
        LET cr == crumbs_of(path)
        IN  \E k \in 1..Len(cr), j \in 1..Len(cr) :
                /\ j < k
                /\ has_direct(p, level_path(cr, k))
                /\ expired(direct(p, level_path(cr, k)), now)
                /\ valid_role(p, level_path(cr, k), now)
                /\ has_direct(p, level_path(cr, j))
                /\ ~expired(direct(p, level_path(cr, j)), now)
                /\ ~try_authorize_path(Store, now, p, path).ok

\* C2 as stated: a direct grant on P that has not expired makes IsAllowed
\* true for every path below P, whatever else is stored.
C2_Original ==
    \A key \in DOMAIN PRINCIPAL_PATH_AUTHORIZATIONS, q \in QueryPaths, t \in Times :
        (/\ ~expired(PRINCIPAL_PATH_AUTHORIZATIONS[key], t)
         /\ is_proper_prefix(crumbs_of(key[2]), crumbs_of(q)))
        => is_allowed(key[1], <<q>>, t) = OkValue(TRUE)

\* C2: a direct grant on P that has not expired makes IsAllowed true for every
\* path below P on which the principal has no expired direct grant at a level
\* deeper than P; what else is stored does not matter.
C2_GrantReachesDown ==
    \A key \in DOMAIN PRINCIPAL_PATH_AUTHORIZATIONS, q \in QueryPaths, t \in Times :
        LET cp == crumbs_of(key[2])
            cq == crumbs_of(q)
        IN  (/\ ~expired(PRINCIPAL_PATH_AUTHORIZATIONS[key], t)
             /\ is_proper_prefix(cp, cq)
             /\ \A k \in (Len(cp) + 1)..Len(cq) :
                    ~(/\ has_direct(key[1], level_path(cq, k))
                      /\ expired(direct(key[1], level_path(cq, k)), t)))
            => is_allowed(key[1], <<q>>, t) = OkValue(TRUE)

\* a timed grant on /a that has not expired allows /a/b/c, with nothing
\* stored at /a/b/c and an expired membership in a role of /a/b
C2_Witness ==
    /\ has_direct("p", <<"/", "a">>)
    /\ direct("p", <<"/", "a">>).expires_at # {}
    /\ ~expired(direct("p", <<"/", "a">>), now)
    /\ \E k \in PATH_ROLES :
           /\ k[1] = <<"/", "a", "/", "b">>
           /\ <<"p", k[2]>> \in DOMAIN PRINCIPAL_ROLE_AUTHORIZATIONS
           /\ expired(PRINCIPAL_ROLE_AUTHORIZATIONS[<<"p", k[2]>>], now)
    /\ is_allowed("p", << <<"/", "a", "/", "b", "/", "c">> >>, now) = OkValue(TRUE)

\* the case of C3: the direct grant at level k of the path has expired and no
\* deeper level decides
expired_level(p, cr, k, t) ==
    /\ has_direct(p, level_path(cr, k))
    /\ expired(direct(p, level_path(cr, k)), t)
    /\ \A j \in (k + 1)..Len(cr) : ~decides(p, level_path(cr, j), t)

\* the check fails with the expiry error of that level, raised or not
fails_expired(p, path, lp, t) ==
    /\ query_is_allowed(Store, t, IsAllowedParams(p, <<path>>, {}, {FALSE}))
         = OkValue(FALSE)
    /\ query_is_allowed(Store, t, IsAllowedParams(p, <<path>>, {}, {TRUE}))
         = ErrReason("NotAuthorized", <<Message("access has expired", p, lp)>>)

\* C3 as stated: then the check fails with the expiry error, and the check on
\* a shallower prefix that has a valid direct or role grant succeeds.
C3_Original ==
    \A p \in Principals, path \in QueryPaths, t \in Times :
        LET cr == crumbs_of(path)
        IN  \A k \in 1..Len(cr) :
                expired_level(p, cr, k, t)
                => /\ fails_expired(p, path, level_path(cr, k), t)
                   /\ \A j \in 1..(k - 1) :
                          LET sp == level_path(cr, j)
                          IN  (\/ has_direct(p, sp) /\ ~expired(direct(p, sp), t)
                               \/ valid_role(p, sp, t))
                              => is_allowed(p, <<sp>>, t) = OkValue(TRUE)

\* C3: then the check fails with the expiry error, whatever valid role the
\* level itself or valid grant a shallower prefix has; and the check on a
\* shallower prefix succeeds when its direct grant is valid, or when it has no
\* direct grant and a valid role membership.
C3_ExpiredGrantBlocks ==
    \A p \in Principals, path \in QueryPaths, t \in Times :
        LET cr == crumbs_of(path)
        IN  \A k \in 1..Len(cr) :
                expired_level(p, cr, k, t)
                => /\ fails_expired(p, path, level_path(cr, k), t)
                   /\ \A j \in 1..(k - 1) :
                          LET sp == level_path(cr, j)
                          IN  (\/ has_direct(p, sp) /\ ~expired(direct(p, sp), t)
                               \/ ~has_direct(p, sp) /\ valid_role(p, sp, t))
                              => is_allowed(p, <<sp>>, t) = OkValue(TRUE)

\* the example of the specification: an expired direct grant on /a/b and a
\* valid role on /a; the check on /a/b fails and the one on /a succeeds
C3_Witness ==
    /\ expired_level("p", crumbs_of(<<"/", "a", "/", "b">>), 2, now)
    /\ ~has_direct("p", <<"/", "a">>)
    /\ valid_role("p", <<"/", "a">>, now)
    /\ fails_expired("p", <<"/", "a", "/", "b">>, <<"/", "a", "/", "b">>, now)
    /\ is_allowed("p", << <<"/", "a">> >>, now) = OkValue(TRUE)

\* C4: an AllowPath(p, x, ttl) that succeeds at block time T leaves IsAllowed
\* of p on the canonical path of x true at the times before T + ttl and false
\* from T + ttl on (always true without a ttl), whatever record the pair had
\* before.
C4_AllowSetsExpiration ==
    [][\A sender \in Auth.senders, a \in Answers, p \in Auth.principals,
          x \in Auth.paths, ttl \in TTLs :
           (last' = Ok /\ now' = now /\ execute(sender, AllowMsg(p, x, ttl), a))
           => \A t \in Times :
                  query_is_allowed(Store', t,
                                   IsAllowedParams(p, <<to_canonical_path(x)>>, {}, {}))
                    = OkValue(ttl = {} \/ \E n \in ttl : t < now + n)]_vars

\* a grant made at this block time with ttl = 0, at a time later than 0, is
\* denied at once
C4_Witness ==
    /\ last = Ok
    /\ now > 0
    /\ has_direct("p", <<"/", "a", "-", "b">>)
    /\ direct("p", <<"/", "a", "-", "b">>).expires_at = {now}
    /\ is_allowed("p", << <<"/", "a", "-", "b">> >>, now) = OkValue(FALSE)

\* C9 as stated: once a resource has a grant, two raw paths with its canonical
\* form get the same answer from IsAllowed, and the same as the canonical form.
C9_Original ==
    \A p \in Principals, r1 \in QueryPaths :
        LET c == to_canonical_path(r1)
        IN  (has_direct(p, c) \/ \E k \in ROLE_PATHS : k[2] = c)
            => \A r2 \in QueryPaths \cup {c} :
                   to_canonical_path(r2) = c
                   => is_allowed(p, <<r2>>, now) = is_allowed(p, <<r1>>, now)

---------------------------------------------------------------------------
(* The claims about the requirement and the raise flag. *)

ask(p, paths, require, raise) ==
    query_is_allowed(Store, now, IsAllowedParams(p, paths, require, raise))

authorized(p, path) == try_authorize_path(Store, now, p, path).ok

\* the messages of the paths of the list that fail, in input order
RECURSIVE failures(_, _)
failures(p, paths) ==
    IF paths = <<>> THEN <<>>
    ELSE LET r == try_authorize_path(Store, now, p, Head(paths))
         IN  (IF r.ok THEN <<>> ELSE <<r.msg>>) \o failures(p, Tail(paths))

\* C5 as stated: with require = ALL or no require, IsAllowed is true exactly
\* when every path of the list is authorized, for every list.
C5_Original ==
    \A p \in Principals, paths \in PathLists, require \in {{}, {"All"}} :
        ask(p, paths, require, {}) =
            OkValue(\A i \in 1..Len(paths) : authorized(p, paths[i]))

\* C6: with require = ANY, IsAllowed is true exactly when some path of the
\* list is authorized, wherever it stands in the list; over a list of one
\* authorized and one denied path ANY is true and ALL is false.
C6_AnyIsOr ==
    \A p \in Principals, paths \in PathLists :
        /\ ask(p, paths, {"Any"}, {}) =
               OkValue(\E i \in 1..Len(paths) : authorized(p, paths[i]))
        /\ (/\ Len(paths) = 2
            /\ authorized(p, paths[1]) # authorized(p, paths[2]))
           => /\ ask(p, paths, {"Any"}, {}) = OkValue(TRUE)
              /\ ask(p, paths, {"All"}, {}) = OkValue(FALSE)
              /\ ask(p, paths, {}, {}) = OkValue(FALSE)

\* a denied path before a granted one, and the other way round
C6_Witness ==
    LET granted == <<"/", "a", "/", "b">>
        denied == <<"/", "a", "-", "b">>
    IN  /\ authorized("p", granted)
        /\ ~authorized("p", denied)
        /\ ask("p", <<denied, granted>>, {"Any"}, {}) = OkValue(TRUE)
        /\ ask("p", <<granted, denied>>, {"Any"}, {}) = OkValue(TRUE)
        /\ ask("p", <<denied, granted>>, {"All"}, {}) = OkValue(FALSE)
        /\ last = OkValue(TRUE)

\* C7 as stated: raise = false answers false exactly when raise = true fails
\* with NotAuthorized, and both answer true otherwise; under ALL the reason is
\* the message of the first failing path, under ANY the messages of all paths.
C7_Original ==
    \A p \in Principals, paths \in PathLists, require \in Requirements :
        LET quiet == ask(p, paths, require, {FALSE})
            loud == ask(p, paths, require, {TRUE})
            failed == failures(p, paths)
        IN  \/ quiet = OkValue(TRUE) /\ loud = OkValue(TRUE)
            \/ /\ quiet = OkValue(FALSE)
               /\ ask(p, paths, require, {}) = OkValue(FALSE)
               /\ IF require = {"Any"}
                  THEN /\ Len(failed) = Len(paths)
                       /\ loud = ErrReason("NotAuthorized", failed)
                  ELSE /\ failed # <<>>
                       /\ loud = ErrReason("NotAuthorized", <<Head(failed)>>)

---------------------------------------------------------------------------
(* The claims about the execute messages. *)

\* the execute messages of an environment
ExecuteMsgs(e) ==
    {SetOperatorMsg(o) : o \in Operators}
    \cup {AllowMsg(p, x, ttl) : p \in e.principals, x \in e.paths, ttl \in TTLs}
    \cup {DenyMsg(p, x) : p \in e.principals, x \in e.paths}
    \cup {CreateRoleMsg(r, d, ps) :
              r \in e.roles, d \in Descriptions, ps \in InitialPaths(e.paths)}
    \cup {AllowRoleMsg(r, x) : r \in e.roles, x \in e.paths}
    \cup {DenyRoleMsg(r, x) : r \in e.roles, x \in e.paths}
    \cup {GrantRoleMsg(p, r, ttl) : p \in e.principals, r \in e.roles, ttl \in TTLs}
    \cup {RevokeRoleMsg(p, r) : p \in e.principals, r \in e.roles}

\* the error of the gate for a sender that is not the operator address
Unauthorized == Err("Std(GenericErr)")

\* C8: while the operator is an address, no execute message of another sender
\* does anything but fail at the gate with the storage unchanged (the
\* operator included, so only the operator replaces it), and no execute
\* message of the operator address fails at the gate; this holds for the
\* address a SetOperator has installed as for the creator.
C8_OperatorGate ==
    OP.kind = "Address" =>
        \A sender \in Addrs, m \in ExecuteMsgs(All), a \in AclAnswers :
            IF sender = OP.addr
            THEN ~ENABLED (execute(sender, m, a) /\ last' = Unauthorized)
            ELSE ~ENABLED (execute(sender, m, a)
                             /\ ~(last' = Unauthorized /\ UNCHANGED storage))

\* the creator a has made b the operator and is turned away at the gate,
\* while a message of b passes it
C8_Witness ==
    /\ CREATED_BY = "a"
    /\ OP = [kind |-> "Address", addr |-> "b"]
    /\ last = Unauthorized
    /\ ENABLED (execute("b", AllowMsg("p", <<"/", "a">>, {}), Ok) /\ last' = Ok)
    /\ ENABLED (execute("a", AllowMsg("p", <<"/", "a">>, {}), Ok)
                  /\ last' = Unauthorized)

\* C10 as stated: DenyPath(p, x) by the operator succeeds, and afterwards the
\* pair (p, x) has no direct grant, whether it had one or not.
C10_Original ==
    OP.kind = "Address" =>
        \A p \in All.principals, x \in All.paths :
            ENABLED (/\ execute(OP.addr, DenyMsg(p, x), Ok)
                     /\ last' = Ok
                     /\ <<p, to_canonical_path(x)>>
                            \notin DOMAIN PRINCIPAL_PATH_AUTHORIZATIONS')

---------------------------------------------------------------------------
(* The claims about the roles. *)

\* the operator's address; in SpecRoles the operator is always an address
operator == OP.addr

call_failed == ~last'.ok

\* C11 as stated: for every (role, x) in RolePaths, DenyRolePath(role, x) by
\* the operator succeeds and leaves neither (role, x) in RolePaths nor
\* (x, role) in PathRoles.
C11_Original ==
    \A k \in ROLE_PATHS :
        ENABLED (/\ execute(operator, DenyRoleMsg(k[1], k[2]), Ok)
                 /\ last' = Ok
                 /\ k \notin ROLE_PATHS'
                 /\ <<k[2], k[1]>> \notin PATH_ROLES')

\* C12 as stated: RemoveRole(name) succeeds, deletes the RoleInfo, leaves no
\* entry of RolePaths or PathRoles that mentions the role, and leaves the
\* entries of the other roles as they were.
C12_Original ==
    \A name \in DOMAIN ROLE_INFOS :
        ENABLED (/\ exec_remove_role(name)
                 /\ last' = Ok
                 /\ name \notin DOMAIN ROLE_INFOS'
                 /\ ROLE_PATHS' = {k \in ROLE_PATHS : k[1] # name}
                 /\ PATH_ROLES' = {k \in PATH_ROLES : k[2] # name})

\* the storage the resolver reads, without the index entries of the roles
\* that have no RoleInfo
StoreOfLiveRoles ==
    [Store EXCEPT !.pr = {k \in PATH_ROLES : k[2] \in DOMAIN ROLE_INFOS}]

\* C13 as stated: a role without RoleInfo never makes TryAuthorizePath
\* succeed: a path that is authorized is authorized without the roles that
\* have no RoleInfo.
C13_Original ==
    \A p \in Principals, path \in QueryPaths :
        try_authorize_path(Store, now, p, path).ok
        => try_authorize_path(StoreOfLiveRoles, now, p, path).ok

\* C14 as stated: AllowRolePath and DenyRolePath for a role without RoleInfo
\* fail and leave RolePaths, PathRoles and PathRefCount unchanged, so every
\* role of RolePaths and PathRoles has a RoleInfo.
C14_Original ==
    /\ \A r \in Roles \ DOMAIN ROLE_INFOS, x \in WritePaths :
           \A m \in {AllowRoleMsg(r, x), DenyRoleMsg(r, x)} :
               ~ENABLED (/\ execute(operator, m, Ok)
                         /\ ~(/\ call_failed
                              /\ UNCHANGED <<ROLE_PATHS, PATH_ROLES, PATH_REF_COUNTS>>))
    /\ \A k \in ROLE_PATHS : k[1] \in DOMAIN ROLE_INFOS
    /\ \A k \in PATH_ROLES : k[2] \in DOMAIN ROLE_INFOS

\* the messages that grant or revoke role r for principal p
MembershipMsgs(p, r) ==
    {GrantRoleMsg(p, r, ttl) : ttl \in TTLs} \cup {RevokeRoleMsg(p, r)}

\* C15: GrantRole and RevokeRole for a role without RoleInfo fail and change
\* nothing stored (no membership record written or deleted, no RoleInfo
\* created), and every step that adds a membership record adds it for a role
\* that has a RoleInfo before the step.
C15_RoleMustExist ==
    [][/\ \A p \in Principals, r \in Roles \ DOMAIN ROLE_INFOS :
              \A m \in MembershipMsgs(p, r) :
                  (now' = now /\ execute(operator, m, Ok))
                  => (call_failed /\ UNCHANGED storage)
       /\ \A key \in (DOMAIN PRINCIPAL_ROLE_AUTHORIZATIONS')
                       \ DOMAIN PRINCIPAL_ROLE_AUTHORIZATIONS :
              key[2] \in DOMAIN ROLE_INFOS]_vars

\* a grant or revoke has just failed for a role that was removed and whose
\* membership record from before the removal is still stored
C15_Witness ==
    /\ last = Err("NotAuthorized")
    /\ ROLE_INFOS = EmptyMap
    /\ \E key \in DOMAIN PRINCIPAL_ROLE_AUTHORIZATIONS : key[2] = <<"r">>

\* C16 as stated: CreateRole for a name with a RoleInfo fails with
\* AlreadyExists; GrantRole and RevokeRole for a role without RoleInfo fail
\* with NotFound.
C16_Original ==
    \A r \in Roles :
        IF r \in DOMAIN ROLE_INFOS
        THEN ~ENABLED (/\ execute(operator, CreateRoleMsg(r, {}, {}), Ok)
                       /\ last' # Err("AlreadyExists"))
        ELSE \A p \in Principals :
                 \A m \in MembershipMsgs(p, r) :
                     ~ENABLED (/\ execute(operator, m, Ok)
                               /\ last' # Err("NotFound"))

\* the initial paths a CreateRole may carry: none, or a list of raw paths
CreatePaths ==
    {{}} \cup {{l} : l \in ListsOver(All.paths \cup {<<"/", "a", "/", "b">>}, MaxPaths)}

\* what CreateRole(name, description, paths) by sender must do
create_role_done(sender, name, description, paths) ==
    LET canonical_paths ==
            UNION {{to_canonical_path(l[i]) : i \in 1..Len(l)} : l \in paths}
    IN  IF name \in DOMAIN ROLE_INFOS
        THEN call_failed /\ UNCHANGED storage
        ELSE /\ last' = Ok
             /\ DOMAIN ROLE_INFOS' = DOMAIN ROLE_INFOS \cup {name}
             /\ \A r \in DOMAIN ROLE_INFOS : ROLE_INFOS'[r] = ROLE_INFOS[r]
             /\ ROLE_INFOS'[name] =
                    [created_at |-> now, created_by |-> sender,
                     n_principals |-> 0, description |-> description]
             /\ ROLE_PATHS' = ROLE_PATHS \cup {<<name, c>> : c \in canonical_paths}
             /\ PATH_ROLES' = PATH_ROLES \cup {<<c, name>> : c \in canonical_paths}
             /\ DOMAIN PATH_REF_COUNTS' = DOMAIN PATH_REF_COUNTS \cup canonical_paths
             /\ UNCHANGED <<OP, meta, PRINCIPAL_PATH_AUTHORIZATIONS,
                            PRINCIPAL_ROLE_AUTHORIZATIONS>>

\* C17: CreateRole by the operator fails and changes nothing when the name
\* has a RoleInfo; otherwise it succeeds, stores a RoleInfo with n_principals
\* 0, the caller and the block time, indexes every initial path under its
\* canonical form in RolePaths and PathRoles, and leaves each of these paths
\* with a PathRefCount entry.
C17_CreateRole ==
    OP.kind = "Address" =>
        \A name \in All.roles, description \in {{}, {<<"d">>}}, paths \in CreatePaths :
            ~ENABLED (/\ execute(operator, CreateRoleMsg(name, description, paths), Ok)
                      /\ ~create_role_done(operator, name, description, paths))

\* a role created by b, the operator after a, at time 1, with a path and a
\* member, has just been refused a second creation
C17_Witness ==
    /\ last = Err("NotAuthorized")
    /\ <<"r">> \in DOMAIN ROLE_INFOS
    /\ ROLE_INFOS[<<"r">>].created_by = "b"
    /\ ROLE_INFOS[<<"r">>].created_at = 1
    /\ ROLE_INFOS[<<"r">>].n_principals = 1
    /\ <<<<"r">>, <<"/", "a", "-", "b">>>> \in ROLE_PATHS

\* the membership records stored for a role
members(r) == {key \in DOMAIN PRINCIPAL_ROLE_AUTHORIZATIONS : key[2] = r}

\* C18 as stated: for every role with a RoleInfo, n_principals is the number
\* of membership records stored for the role.
C18_Original ==
    \A r \in DOMAIN ROLE_INFOS : ROLE_INFOS[r].n_principals = Cardinality(members(r))

\* n_principals of r after GrantRole(p, r, ttl) and then RevokeRole(p, r), when
\* both succeed
after_grant_and_revoke(p, r, ttl) ==
    LET granted == grant_role(ROLE_INFOS, PRINCIPAL_ROLE_AUTHORIZATIONS,
                              GrantRoleMsg(p, r, ttl))
        revoked == revoke_role(granted.infos, granted.pra, RevokeRoleMsg(p, r))
    IN  IF granted.res.ok /\ revoked.res.ok
        THEN {revoked.infos[r].n_principals}
        ELSE {}

Repeated(n) == [i \in 1..n |-> "x"]

\* absent, of the greatest length allowed, and one byte longer
TextsUpTo(max) == {{}, {Repeated(max)}, {Repeated(max + 1)}}

InstantiateMsgs ==
    {InstantiateMsg(o, n, d) :
        o \in {{}} \cup {{op} : op \in Operators},
        n \in TextsUpTo(MAX_NAME_LEN),
        d \in TextsUpTo(MAX_DESC_LEN)}

\* an execute message that fails leaves the storage as it was
ExecuteIsAtomic ==
    \A m \in ExecuteMsgs(Admin) :
        ~ENABLED (execute(operator, m, Ok) /\ call_failed /\ ~UNCHANGED storage)

\* exec_remove_role leaves the storage as it was when it fails
RemoveRoleIsAtomic ==
    \A r \in Roles :
        ~ENABLED (exec_remove_role(r) /\ call_failed /\ ~UNCHANGED storage)

\* init has saved nothing when it fails
InitIsAtomic ==
    \A sender \in Addrs, time \in Times, msg \in InstantiateMsgs :
        LET out == init_result(sender, time, msg)
        IN  ~out.res.ok => \A item \in DOMAIN out.saved : out.saved[item] = {}

\* C20 as stated: an operation that returns an error leaves every stored
\* collection as before the call: the execute messages, RemoveRole and the
\* instantiation.
C20_Original == ExecuteIsAtomic /\ RemoveRoleIsAtomic /\ InitIsAtomic

---------------------------------------------------------------------------
(* The claims about the listings. *)

Options(set) == {{}} \cup {{x} : x \in set}

\* the Paths queries asked: every subject, pages of no, one, two and any
\* number of entries, and ranges that begin and end at granted and other paths
PathsQueries ==
    {PathsQueryParams(subject, limit, cursor, start, stop) :
        subject \in {Acl, Role(<<"r">>), Principal("p")},
        limit \in Options({0, 1, 2, MAX_LIMIT + 1}),
        cursor \in Options({<<"/", "a">>, <<"/", "a", "-", "b">>}),
        start \in Options({<<"/", "a", "-", "b">>}),
        stop \in Options({<<"/", "a", "/", "b">>, <<"/", "a", "/">>})}

\* the path is one of the subject's
listed(subject, path) ==
    CASE subject.kind = "Acl" -> path \in DOMAIN PATH_REF_COUNTS
      [] subject.kind = "Role" -> <<subject.name, path>> \in ROLE_PATHS
      [] subject.kind = "Principal" ->
            <<subject.name, path>> \in DOMAIN PRINCIPAL_PATH_AUTHORIZATIONS

\* the pages of the subject's paths: the first Paths query, then one from
\* each cursor returned, with the same subject and limit
RECURSIVE paging(_, _, _, _)
paging(store, subject, limit, cursor) ==
    LET page == query_paths(store, PathsQueryParams(subject, {limit}, cursor, {}, {})).value
    IN  IF page.cursor = {} THEN <<page>>
        ELSE <<page>> \o paging(store, subject, limit, page.cursor)

\* the paths of the pages, one page after the other
RECURSIVE paths_of(_)
paths_of(pages) ==
    IF pages = <<>> THEN <<>>
    ELSE [i \in 1..Len(Head(pages).paths) |-> Head(pages).paths[i].path]
            \o paths_of(Tail(pages))

\* the subject's paths, ascending
all_paths(subject) ==
    query_paths(Store, PathsQueryParams(subject, {MAX_LIMIT}, {}, {}, {})).value.paths

PagedSubjects == {Acl, Role(<<"r">>), Principal("p")}
PageLimits == 1..3

\* the pages give every path of the subject once, ascending
PagingIsComplete ==
    \A subject \in PagedSubjects, limit \in PageLimits :
        LET every == all_paths(subject)
        IN  paths_of(paging(Store, subject, limit, {}))
                = [i \in 1..Len(every) |-> every[i].path]

\* C21: paging through the paths of a subject, each cursor given to the next
\* Paths query with the same subject and limit >= 1 on an unchanged store,
\* returns every path once, ascending across the pages, and the page that
\* holds the subject's last path is returned with no cursor.
C21_Original ==
    /\ PagingIsComplete
    /\ \A subject \in PagedSubjects, limit \in PageLimits :
            LET every == all_paths(subject)
                pages == paging(Store, subject, limit, {})
            IN  \A i \in 1..Len(pages) :
                    (/\ every # <<>>
                     /\ \E j \in 1..Len(pages[i].paths) :
                            pages[i].paths[j] = every[Len(every)])
                        => pages[i].cursor = {}

\* C22: every Paths query returns at most min(limit, 500) entries, 100 when
\* the limit is omitted, strictly ascending, each above the cursor when one
\* is given (otherwise at or above start when given), at or below stop when
\* given, and each a path of the subject; a cursor is returned only with a
\* full page, and is the last path of the page.
C22_PageOfPaths ==
    \A params \in PathsQueries :
        LET page == query_paths(Store, params).value
            n == Len(page.paths)
            most == IF params.limit = {} THEN 100
                    ELSE LET l == CHOOSE x \in params.limit : TRUE
                         IN  IF l < 500 THEN l ELSE 500
        IN  /\ n <= most
            /\ \A i \in 1..(n - 1) :
                    bytes_less(page.paths[i].path, page.paths[i + 1].path)
            /\ \A i \in 1..n :
                    LET path == page.paths[i].path
                    IN  /\ \A c \in params.cursor : bytes_less(c, path)
                        /\ params.cursor = {} =>
                                \A s \in params.start : ~bytes_less(path, s)
                        /\ \A s \in params.stop : ~bytes_less(s, path)
                        /\ listed(params.subject, path)
            /\ page.cursor # {} => n = most /\ page.cursor = {page.paths[n].path}

\* the role's paths are more than 500, and the page of the greatest limit
\* holds 500 of them with its last path as the cursor; the page of no limit
\* holds 100
C22_Witness ==
    LET full == query_paths(Store, PathsQueryParams(Role(<<"r">>), {MAX_LIMIT + 1},
                                                    {}, {}, {})).value
        plain == query_paths(Store, PathsQueryParams(Acl, {}, {}, {}, {})).value
    IN  /\ Len(full.paths) = 500
        /\ full.cursor = {full.paths[500].path}
        /\ Len(plain.paths) = 100
        /\ plain.cursor = {plain.paths[100].path}

---------------------------------------------------------------------------
(* The claims about the canonical form. *)

\* the raw strings of at most MaxRaw characters: slashes, spaces, a
\* character that is not printable, and letters
RawChars == {"/", " ", "\t", "a", "b"}
RawStrings == UNION {[1..n -> RawChars] : n \in 0..MaxRaw}

\* the canonical form of a canonical form is itself
idempotent(x) == to_canonical_path(to_canonical_path(x)) = to_canonical_path(x)

\* C23: canonicalization is idempotent for every raw string of slashes,
\* spaces, a character that is not printable and letters, also where such a
\* character or a space is next to a leading or trailing slash, and so for
\* every path stored as the key of a grant.
C23_Original ==
    \A x \in RawStrings \cup {k[2] : k \in DOMAIN PRINCIPAL_PATH_AUTHORIZATIONS} :
        idempotent(x)

---------------------------------------------------------------------------
(* The claims about the listing of roles. *)

\* the roles of which the principal holds a membership record
held(p) == {k[2] : k \in {k \in DOMAIN PRINCIPAL_ROLE_AUTHORIZATIONS : k[1] = p}}

\* C24: the Roles query for a principal succeeds in every reachable state,
\* also after a role the principal held was removed, and returns one entry
\* for each membership record of the principal, with the expiration of that
\* membership; the Roles query for no principal returns one entry for each
\* RoleInfo, none with an expiration.
C24_Original ==
    /\ \A p \in Principals :
            LET res == query_roles(Store, {p})
            IN  /\ res.ok
                /\ Len(res.value) = Cardinality(held(p))
                /\ \A r \in held(p) :
                        \E i \in 1..Len(res.value) :
                            /\ res.value[i].name = r
                            /\ res.value[i].expires_at =
                                    PRINCIPAL_ROLE_AUTHORIZATIONS[<<p, r>>].expires_at
    /\ LET res == query_roles(Store, {})
       IN  /\ res.ok
           /\ Len(res.value) = Cardinality(DOMAIN ROLE_INFOS)
           /\ \A r \in DOMAIN ROLE_INFOS :
                   \E i \in 1..Len(res.value) :
                       res.value[i].name = r /\ res.value[i].expires_at = {}

\* what holds of the code: the same, in the states where every membership
\* record is of a role that has its RoleInfo
RolesListedOfLiveRoles ==
    (\A k \in DOMAIN PRINCIPAL_ROLE_AUTHORIZATIONS : k[2] \in DOMAIN ROLE_INFOS)
        => C24_Original

---------------------------------------------------------------------------
(* The claims about the indices and the reference counts. *)

\* C25: RolePaths and PathRoles mirror each other in every reachable state:
\* (role, x) is in RolePaths exactly when (x, role) is in PathRoles, after
\* any CreateRole, AllowRolePath, DenyRolePath and RemoveRole, those that
\* fail and those of a role whose name is also a path included.
C25_IndicesMirror ==
    /\ \A k \in ROLE_PATHS : <<k[2], k[1]>> \in PATH_ROLES
    /\ \A k \in PATH_ROLES : <<k[2], k[1]>> \in ROLE_PATHS

\* the role /a was given the path /a and then removed: its RoleInfo is gone,
\* the release of the path failed, and both index entries are there
C25_Witness ==
    LET a == <<"/", "a">>
    IN  /\ a \notin DOMAIN ROLE_INFOS
        /\ ~last.ok
        /\ last.kind = "Std(Overflow)"
        /\ <<a, a>> \in ROLE_PATHS
        /\ <<a, a>> \in PATH_ROLES

\* C26: every path that is a key component of a direct grant, of RolePaths
\* or of PathRoles has a PathRefCount entry in every reachable state: no
\* operation deletes the entry of a path that a grant still references.
C26_GrantedPathsAreCounted ==
    /\ \A k \in DOMAIN PRINCIPAL_PATH_AUTHORIZATIONS : k[2] \in DOMAIN PATH_REF_COUNTS
    /\ \A k \in ROLE_PATHS : k[2] \in DOMAIN PATH_REF_COUNTS
    /\ \A k \in PATH_ROLES : k[1] \in DOMAIN PATH_REF_COUNTS

\* a principal and a role are granted the same path, and a release of the
\* path has just been refused
C26_Witness ==
    LET a == <<"/", "a">>
    IN  /\ <<"p", a>> \in DOMAIN PRINCIPAL_PATH_AUTHORIZATIONS
        /\ <<<<"r">>, a>> \in ROLE_PATHS
        /\ ~last.ok
        /\ last.kind = "Std(Overflow)"
        /\ a \in DOMAIN PATH_REF_COUNTS

\* the live grants that reference the path: the direct grants and the
\* entries of RolePaths
n_grants(path) ==
    Cardinality({k \in DOMAIN PRINCIPAL_PATH_AUTHORIZATIONS : k[2] = path})
        + Cardinality({k \in ROLE_PATHS : k[2] = path})

GrantedPaths ==
    {k[2] : k \in DOMAIN PRINCIPAL_PATH_AUTHORIZATIONS} \cup {k[2] : k \in ROLE_PATHS}

\* C27: in every reachable state the PathRefCount of a path is the number of
\* live grants that reference it, and a path with no grant has no entry, so
\* that it is not in the listing of the subject ACL.
C27_Original ==
    /\ \A path \in GrantedPaths :
            /\ path \in DOMAIN PATH_REF_COUNTS
            /\ PATH_REF_COUNTS[path] = n_grants(path)
    /\ \A path \in DOMAIN PATH_REF_COUNTS : path \in GrantedPaths
    /\ LET page == query_paths(Store, PathsQueryParams(Acl, {}, {}, {}, {})).value
       IN  \A i \in 1..Len(page.paths) : page.paths[i].path \in GrantedPaths

---------------------------------------------------------------------------
(* The claims about the levels the resolver examines. *)

Root == <<"/">>

\* the storage without the grants stored at the root: the direct grants on
\* "/" and the roles indexed at "/"
StoreWithoutRoot ==
    [Store EXCEPT
        !.ppa = [k \in {x \in DOMAIN PRINCIPAL_PATH_AUTHORIZATIONS : x[2] # Root} |->
                    PRINCIPAL_PATH_AUTHORIZATIONS[k]],
        !.pr = {k \in PATH_ROLES : k[1] # Root}]

\* C28: for every input path, "" and "/" included, the levels examined are
\* the non-empty prefixes of the list of its segments and none of them is the
\* root "/", so that a direct grant or a role stored at "/" never makes an
\* IsAllowed check succeed: what is allowed is allowed without them.
C28_Original ==
    \A path \in QueryPaths :
        /\ \A k \in 1..Len(crumbs_of(path)) : level_path(crumbs_of(path), k) # Root
        /\ \A p \in Principals, t \in Times :
                try_authorize_path(Store, t, p, path).ok
                    => try_authorize_path(StoreWithoutRoot, t, p, path).ok

\* the grants at the root reach no path but the root itself
RootReachesOnlyRoot ==
    \A path \in QueryPaths, p \in Principals, t \in Times :
        to_canonical_path(path) # Root =>
            (try_authorize_path(Store, t, p, path).ok
                => try_authorize_path(StoreWithoutRoot, t, p, path).ok)

\* the storage without the memberships that have expired at time t
StoreOfValidMemberships(t) ==
    [Store EXCEPT
        !.pra = [k \in {x \in DOMAIN PRINCIPAL_ROLE_AUTHORIZATIONS :
                            ~expired(PRINCIPAL_ROLE_AUTHORIZATIONS[x], t)} |->
                    PRINCIPAL_ROLE_AUTHORIZATIONS[k]]]

\* C29: a role membership that has expired neither grants nor blocks: it
\* never makes TryAuthorizePath succeed and it does not end the search, which
\* goes on with the other roles of the level and with the shorter prefixes.
\* The result is that of the storage without the expired memberships.
C29_ExpiredMembershipIsPassedOver ==
    \A p \in Principals, path \in QueryPaths, t \in Times :
        try_authorize_path(Store, t, p, path)
            = try_authorize_path(StoreOfValidMemberships(t), t, p, path)

\* the roles /a and r are both indexed at /a/b; the membership of p in /a,
\* the first of the two, has expired and that in r has not: p is authorized
\* on /a/b
C29_Witness ==
    LET a == <<"/", "a">>
        ab == <<"/", "a", "/", "b">>
    IN  /\ <<ab, a>> \in PATH_ROLES
        /\ <<ab, <<"r">>>> \in PATH_ROLES
        /\ <<"p", a>> \in DOMAIN PRINCIPAL_ROLE_AUTHORIZATIONS
        /\ expired(PRINCIPAL_ROLE_AUTHORIZATIONS[<<"p", a>>], now)
        /\ <<"p", <<"r">>>> \in DOMAIN PRINCIPAL_ROLE_AUTHORIZATIONS
        /\ ~expired(PRINCIPAL_ROLE_AUTHORIZATIONS[<<"p", <<"r">>>>], now)
        /\ try_authorize_path(Store, now, "p", ab).ok

\* the membership of p in the role indexed at /a/b has expired and that in
\* the role indexed at /a has not: p is authorized on /a/b
ExpiredAboveValid ==
    LET a == <<"/", "a">>
        ab == <<"/", "a", "/", "b">>
    IN  /\ PATH_ROLES = {<<ab, a>>, <<a, <<"r">>>>}
        /\ <<"p", a>> \in DOMAIN PRINCIPAL_ROLE_AUTHORIZATIONS
        /\ expired(PRINCIPAL_ROLE_AUTHORIZATIONS[<<"p", a>>], now)
        /\ <<"p", <<"r">>>> \in DOMAIN PRINCIPAL_ROLE_AUTHORIZATIONS
        /\ ~expired(PRINCIPAL_ROLE_AUTHORIZATIONS[<<"p", <<"r">>>>], now)
        /\ try_authorize_path(Store, now, "p", ab).ok

---------------------------------------------------------------------------
(* The claims about the ends of the counter. *)

\* the call fails with the overflow error of the standard library and leaves
\* the RoleInfos and the membership records as they are
refused(out) ==
    /\ out.res = Err("Std(Overflow)")
    /\ out.infos = ROLE_INFOS
    /\ out.pra = PRINCIPAL_ROLE_AUTHORIZATIONS

\* C30: the counter of a role neither wraps nor clamps: GrantRole on a role
\* whose n_principals is u32::MAX fails with an overflow error, RevokeRole on
\* a role whose n_principals is 0 fails with an underflow error, and both
\* leave the RoleInfo and the membership record unchanged; any other GrantRole
\* adds exactly one.
C30_CounterIsChecked ==
    \A r \in DOMAIN ROLE_INFOS, p \in Principals :
        LET n == ROLE_INFOS[r].n_principals
            revoked == revoke_role(ROLE_INFOS, PRINCIPAL_ROLE_AUTHORIZATIONS,
                                   RevokeRoleMsg(p, r))
        IN  /\ \A ttl \in TTLs :
                    LET granted == grant_role(ROLE_INFOS, PRINCIPAL_ROLE_AUTHORIZATIONS,
                                              GrantRoleMsg(p, r, ttl))
                    IN  IF n = U32_MAX THEN refused(granted)
                        ELSE /\ granted.res.ok
                             /\ unsigned_less(n, granted.infos[r].n_principals)
                             /\ granted.infos[r].n_principals - n = 1
            /\ IF n = 0 THEN refused(revoked)
               ELSE /\ revoked.res.ok
                    /\ unsigned_less(revoked.infos[r].n_principals, n)

\* GrantRole was called on r at u32::MAX and refused: the counter is at
\* u32::MAX still
C30_Witness ==
    /\ ROLE_INFOS[<<"r">>].n_principals = U32_MAX
    /\ last = Err("Std(Overflow)")

\* RevokeRole was called on r at 0 and refused
RevokeRefusedAtZero ==
    /\ ROLE_INFOS[<<"r">>].n_principals = 0
    /\ last = Err("Std(Overflow)")

---------------------------------------------------------------------------
(* The claims about the operator and the data of the instantiation. *)

\* the grants, the roles, the indices and the reference counts
collections ==
    <<PATH_REF_COUNTS, PRINCIPAL_PATH_AUTHORIZATIONS, PRINCIPAL_ROLE_AUTHORIZATIONS,
      ROLE_INFOS, ROLE_PATHS, PATH_ROLES>>

\* what a step of the message m may do to the operator and to the data of
\* the instantiation
framed(m) ==
    /\ UNCHANGED meta
    /\ IF m.type = "set_operator"
       THEN /\ UNCHANGED collections
            /\ IF last'.ok THEN OP' = m.operator ELSE OP' = OP
       ELSE OP' = OP

\* C31: a SetOperator that is let through sets the operator to the value
\* supplied and leaves every grant, role, index and reference count as it
\* was; no other execute message changes the operator; and the creator, the
\* time of creation, the name and the description written at instantiation
\* are changed by no execute message.
C31_OperatorAndMeta ==
    /\ CREATED_BY = "a" /\ CREATED_AT = 0 /\ NAME = {} /\ DESCRIPTION = {}
    /\ \A sender \in Addrs, m \in ExecuteMsgs(All), a \in Answers :
            ~ENABLED (execute(sender, m, a) /\ ~framed(m))

\* the operator is the ACL contract that a SetOperator has installed, and
\* the grant and the role written before it are there
C31_Witness ==
    /\ OP = [kind |-> "Acl", addr |-> "c"]
    /\ last = Ok
    /\ CREATED_BY = "a"
    /\ DOMAIN PRINCIPAL_PATH_AUTHORIZATIONS # {}
    /\ DOMAIN ROLE_INFOS # {}
    /\ ENABLED (execute("a", SetOperatorMsg([kind |-> "Address", addr |-> "b"]), Ok)
                  /\ OP' = [kind |-> "Address", addr |-> "b"])

---------------------------------------------------------------------------
(* The claims about time, principals and the lifetimes of roles. *)

\* the IsAllowed queries asked: lists of at most MaxPaths paths, a path and
\* its prefix, both requirements, raising and not
AskedParams(p) ==
    {IsAllowedParams(p, paths, {require}, {raise}) :
        paths \in ListsOver({<<"/", "a">>, <<"/", "a", "/", "b">>}, MaxPaths),
        require \in TestRequirements, raise \in BOOLEAN}

\* the answer is not true: false, or the error raised in its place
denied(res) == res # OkValue(TRUE)

\* the times that have a next one among those asked
EarlierTimes == {t \in Times : t + 1 \in Times}

\* C32: authorization is monotone in time: on a fixed storage, for the same
\* principal, paths and requirement, an IsAllowed that is denied at a time is
\* denied at the next, and so at every later time, and one that returns
\* false returns false: time alone turns an authorization into a denial and
\* never a denial into an authorization.  The same of TryAuthorizePath for
\* every single path.
C32_MonotoneInTime ==
    \A p \in Auth.principals, t \in EarlierTimes :
        /\ \A msg \in AskedParams(p) :
                LET before == query_is_allowed(Store, t, msg)
                IN  denied(before) =>
                        LET after == query_is_allowed(Store, t + 1, msg)
                        IN  /\ denied(after)
                            /\ before = OkValue(FALSE) => after = OkValue(FALSE)
        /\ \A path \in QueryPaths :
                ~try_authorize_path(Store, t, p, path).ok
                    => ~try_authorize_path(Store, t + 1, p, path).ok

\* on the storage as it is, p is allowed on /a/b now through a role, and at
\* a later time is denied: the membership has expired by then, and so has
\* the direct grant on /a that the search comes to
C32_Witness ==
    LET a == <<"/", "a">>
        ab == <<"/", "a", "/", "b">>
        msg == IsAllowedParams("p", <<ab>>, {}, {})
    IN  /\ ~has_direct("p", ab)
        /\ valid_role("p", ab, now)
        /\ has_direct("p", a)
        /\ query_is_allowed(Store, now, msg) = OkValue(TRUE)
        /\ \E u \in Times :
                /\ u > now
                /\ query_is_allowed(Store, u, msg) = OkValue(FALSE)

\* the execute messages whose principal is q
MsgsOf(q, e) ==
    {AllowMsg(q, x, ttl) : x \in e.paths, ttl \in TTLs}
    \cup {DenyMsg(q, x) : x \in e.paths}
    \cup {GrantRoleMsg(q, r, ttl) : r \in e.roles, ttl \in TTLs}
    \cup {RevokeRoleMsg(q, r) : r \in e.roles}

\* every IsAllowed asked for p has the same result, at every time, on the
\* storage before the step and on the storage after it
same_answers(p) ==
    \A msg \in AskedParams(p), t \in Times :
        query_is_allowed(Store', t, msg) = query_is_allowed(Store, t, msg)

\* C33: principals are isolated from each other: an AllowPath, DenyPath,
\* GrantRole or RevokeRole whose principal is q leaves the result of every
\* IsAllowed for every other principal p as it was, for every list of paths,
\* requirement and time.
C33_PrincipalsAreIsolated ==
    [][UNCHANGED storage
        \/ \A q \in Principals, sender \in Pair.senders :
                \A m \in MsgsOf(q, Pair) :
                    execute(sender, m, Ok)
                        => \A p \in Principals \ {q} : same_answers(p)]_vars

\* q has been given a direct grant and a membership in the role of /a, and
\* p, who has neither, is not allowed on /a
C33_Witness ==
    LET a == <<"/", "a">>
    IN  /\ has_direct("q", a)
        /\ valid_role("q", a, now)
        /\ query_is_allowed(Store, now, IsAllowedParams("q", <<a>>, {}, {})) = OkValue(TRUE)
        /\ DOMAIN PRINCIPAL_PATH_AUTHORIZATIONS = {<<"q", a>>}
        /\ DOMAIN PRINCIPAL_ROLE_AUTHORIZATIONS = {<<"q", <<"r">>>>}
        /\ query_is_allowed(Store, now, IsAllowedParams("p", <<a>>, {}, {})) = OkValue(FALSE)

\* the storage after the step, without the memberships in the role r
NextStoreWithoutMembersOf(r) ==
    [Store' EXCEPT
        !.pra = [k \in {x \in DOMAIN PRINCIPAL_ROLE_AUTHORIZATIONS' : x[2] # r} |->
                    PRINCIPAL_ROLE_AUTHORIZATIONS'[k]]]

\* the step creates the role r, which has no RoleInfo, with the paths ps
creates(r, ps) ==
    /\ r \notin DOMAIN ROLE_INFOS
    /\ r \in DOMAIN ROLE_INFOS'
    /\ \E sender \in Admin.senders, d \in Descriptions :
            execute(sender, CreateRoleMsg(r, d, ps), Ok)

\* C34: access through a role requires a grant made in the role's current
\* lifetime: when CreateRole(r, paths) follows a RemoveRole(r), a principal
\* whose membership record was written before the removal is not authorized
\* through r on any path, and the paths of the role are the initial paths of
\* the CreateRole and no other.  A membership record of r at a time r has no
\* RoleInfo is one written before a removal.
C34_Original ==
    [][\A r \in Admin.roles, ps \in InitialPaths(Admin.paths) :
            (/\ creates(r, ps)
             /\ \E k \in DOMAIN PRINCIPAL_ROLE_AUTHORIZATIONS : k[2] = r)
            => /\ \A p \in Principals, path \in QueryPaths :
                    try_authorize_path(Store', now, p, path).ok
                        => try_authorize_path(NextStoreWithoutMembersOf(r),
                                              now, p, path).ok
               /\ {k[2] : k \in {x \in ROLE_PATHS' : x[1] = r}}
                    = UNION {{to_canonical_path(l[i]) : i \in 1..Len(l)} : l \in ps}]_vars

====
